---- MODULE Spec2Model ----
(***************************************************************************)
(* bitcoin-intel (src/src/index.ts): six query handlers that fan out to    *)
(* public block-explorer endpoints, wait for the replies and shape one     *)
(* output object.                                                          *)
(*                                                                         *)
(* JavaScript values are modelled as follows.                              *)
(*   - A number read from a reply that may be missing is a tagged record:  *)
(*     Num(n), Undefined, NaN, Infinity.                                   *)
(*   - A satoshi amount is a two-limb integer [btc, sat] standing for      *)
(*     btc * 100000000 + sat with 0 <= sat < 100000000, so that amounts    *)
(*     around the whale threshold (10^11) are exact, as they are in an     *)
(*     IEEE double below 2^53.                                             *)
(*   - The clock is in whole seconds: block_time is an integer number of   *)
(*     seconds, so Date.now() / 1000 - block_time < 2592000 depends only   *)
(*     on the whole seconds of Date.now().                                 *)
(***************************************************************************)
EXTENDS Integers, Sequences, FiniteSets, TLC

(***************************************************************************)
(* Bounds of the model.                                                    *)
(***************************************************************************)
MaxRuns == 2
MaxTicks == 2
MaxDrift == 1
StartClock == 1700000000
UpstreamBlocks == 15

(***************************************************************************)
(* Program constants.  WhaleBtc is the threshold 100_000_000_000 sats of   *)
(* isWhale in whole coins (two-limb amounts, see above).                   *)
(***************************************************************************)
SatsPerBtc == 100000000
MaxLimit == 15
DefaultLimit == 10
FeeSample == 6
RecentTxLimit == 10
AddressSample == 5
ActiveTxCount == 10
WhaleBtc == 1000
RecencyWindow == 86400 * 30
RefTxVbytes == 225
WeightPerVbyte == 4

VARIABLES
    upstream,   \* URL -> the reply the (mocked) provider gives
    pc,         \* "idle" | "awaiting" | "done": position of the handler
    query,      \* key of the query being served, "none" before the first
    input,      \* ctx.input of the query
    promises,   \* slot -> state of the promise declared in that slot
    awaited,    \* the promise the handler awaits
    settled,    \* slots in the order their promises settled
    outcome,    \* what the invocation returned
    completed,  \* outcomes of the finished invocations, oldest first
    clock       \* Date.now() in seconds

vars == <<upstream, pc, query, input, promises, awaited, settled, outcome,
          completed, clock>>

(***************************************************************************)
(* JavaScript values.                                                      *)
(***************************************************************************)
Undefined == [t |-> "undefined"]
Null == [t |-> "null"]
NaN == [t |-> "NaN"]
Infinity == [t |-> "Infinity"]
Num(n) == [t |-> "number", v |-> n]
Str(x) == [t |-> "string", v |-> x]
IsNum(x) == x.t = "number"

\* a * b for a JS value a and a number b
JsTimes(a, b) == IF IsNum(a) THEN Num(a.v * b) ELSE NaN

\* a + b for two JS values
JsPlus(a, b) == IF IsNum(a) /\ IsNum(b) THEN Num(a.v + b.v) ELSE NaN

\* ToBoolean of a JS number value
Truthy(x) == IsNum(x) /\ x.v # 0

\* x || d
OrElse(x, d) == IF Truthy(x) THEN x ELSE d

\* new Date(seconds * 1000).toISOString(): one string per instant
ToISOString(seconds) == [iso |-> seconds]

RECURSIVE SumJs(_, _)
\* arr.reduce((sum, e) => sum + f(e), 0) over JS values
SumJs(vals, acc) ==
    IF vals = <<>> THEN acc ELSE SumJs(Tail(vals), JsPlus(acc, Head(vals)))

\* arr.slice(start, end) for start = 0
Slice(arr, end) ==
    LET len == Len(arr)
        e == IF end < 0 THEN (IF len + end < 0 THEN 0 ELSE len + end)
             ELSE (IF end > len THEN len ELSE end)
    IN  SubSeq(arr, 1, e)

(***************************************************************************)
(* Satoshi amounts: JS numbers that are integers below 2^53.               *)
(***************************************************************************)
Sats(b, s) == [btc |-> b, sat |-> s]

\* the amount of a small integer
SatsOf(n) == Sats(n \div SatsPerBtc, n % SatsPerBtc)

\* a + b
SatsAdd(a, b) ==
    LET s == a.sat + b.sat
    IN  IF s >= SatsPerBtc THEN Sats(a.btc + b.btc + 1, s - SatsPerBtc)
        ELSE Sats(a.btc + b.btc, s)

\* a - b floored at zero: Math.max(a - b, 0)
SatsSubClamped(a, b) ==
    LET s == a.sat - b.sat
        d == IF s < 0 THEN Sats(a.btc - b.btc - 1, s + SatsPerBtc)
             ELSE Sats(a.btc - b.btc, s)
    IN  IF d.btc < 0 THEN Sats(0, 0) ELSE d

\* a - b
SatsSub(a, b) ==
    LET s == a.sat - b.sat
    IN  IF s < 0 THEN Sats(a.btc - b.btc - 1, s + SatsPerBtc)
        ELSE Sats(a.btc - b.btc, s)

\* a >= b
SatsGe(a, b) == a.btc > b.btc \/ (a.btc = b.btc /\ a.sat >= b.sat)

\* a > b
SatsGt(a, b) == a.btc > b.btc \/ (a.btc = b.btc /\ a.sat > b.sat)

\* -a
SatsNeg(a) ==
    IF a.sat = 0 THEN Sats(0 - a.btc, 0)
    ELSE Sats(0 - a.btc - 1, SatsPerBtc - a.sat)

\* (sats / 100_000_000).toFixed(8): sign, integer part, the 8 decimals.
\* The quotient of an integer below 2^53 by 10^8 is within 10^-8 / 2 of the
\* double that toFixed prints, so the 8 decimals are the amount's own digits.
satsToBtc(sats) ==
    IF sats.btc < 0
    THEN LET m == SatsNeg(sats)
         IN  [neg |-> TRUE, whole |-> m.btc, frac |-> m.sat]
    ELSE [neg |-> FALSE, whole |-> sats.btc, frac |-> sats.sat]

\* 10^k
Pow10(k) == IF k = 0 THEN 1 ELSE IF k = 1 THEN 10 ELSE 100

\* (n / d).toFixed(k) for integers n and d > 0, k <= 2: sign and the digits
\* as an integer scaled by 10^k.  toFixed rounds to the nearest, and a tie
\* that the double holds exactly goes to the larger magnitude.
ToFixed(n, d, k) ==
    LET a == IF n < 0 THEN 0 - n ELSE n
        q == a \div d
        r == a % d
    IN  [neg |-> n < 0,
         digits |-> q * Pow10(k) + ((2 * r * Pow10(k) + d) \div (2 * d)),
         scale |-> k]

\* ((balance / 100_000_000) * price).toFixed(2) for an integer price
UsdValue(balance, price) ==
    LET m == IF balance.btc < 0 THEN SatsNeg(balance) ELSE balance
        part == ToFixed(m.sat * price, SatsPerBtc \div 100, 0)
    IN  [neg |-> balance.btc < 0,
         digits |-> m.btc * price * 100 + part.digits, scale |-> 2]

(***************************************************************************)
(* Promises.                                                               *)
(***************************************************************************)
Pending == [state |-> "pending"]
Fulfilled(v) == [state |-> "fulfilled", value |-> v]
Rejected(e) == [state |-> "rejected", reason |-> e]

\* new Error(`API error: ${status}`)
ApiError(status) ==
    [name |-> "Error", message |-> [text |-> "API error: ", status |-> status]]

\* the TypeError of reading property prop of undefined
TypeError(prop) ==
    [name |-> "TypeError",
     message |-> [text |-> "Cannot read properties of undefined", reading |-> prop]]

\* what a handler returns, and what is reported when it throws err
Succeeded(out) == [status |-> "succeeded", output |-> out]
Failed(err) == [status |-> "failed", error |-> err.message]

\* A reply of a provider: the transport may fail; otherwise there is an HTTP
\* status and a body, json = <<parsed body>> or <<>> when it is not JSON.
Reply(status, body) == [transport |-> "ok", status |-> status, json |-> <<body>>]
Garbled(status) == [transport |-> "ok", status |-> status, json |-> <<>>]
Unreachable == [transport |-> "failed", status |-> 0, json |-> <<>>]

\* The value a call resolves to: the parsed body, tagged with the URL it was
\* requested from.  The tag is not in the program; only properties read it.
From(url, body) == [from |-> url, body |-> body]

\* fetchJSON without its check of response.ok
fetchJSONAnyStatus(url, reply) ==
    IF reply.transport # "ok"
    THEN Rejected([name |-> "TypeError", message |-> [text |-> "fetch failed"]])
    ELSE IF reply.json = <<>>
    THEN Rejected([name |-> "SyntaxError",
                   message |-> [text |-> "Unexpected token in JSON"]])
    ELSE Fulfilled(From(url, reply.json[1]))

\* fetchJSON(url), given the reply of the provider
fetchJSON(url, reply) ==
    IF reply.transport # "ok"
    THEN Rejected([name |-> "TypeError", message |-> [text |-> "fetch failed"]])
    ELSE IF ~(reply.status \in 200..299)
    THEN Rejected(ApiError(reply.status))
    ELSE IF reply.json = <<>>
    THEN Rejected([name |-> "SyntaxError",
                   message |-> [text |-> "Unexpected token in JSON"]])
    ELSE Fulfilled(From(url, reply.json[1]))

\* p.catch(() => dflt)
Catch(p, dflt) ==
    IF p.state = "rejected" THEN Fulfilled(From("catch", dflt)) ELSE p

\* p.then(b => b.slice(0, n)); every blocks body of the model is an array
ThenSlice(p, n) ==
    IF p.state = "fulfilled"
    THEN Fulfilled(From(p.value.from, Slice(p.value.body, n))) ELSE p

\* Promise.all collecting the values in the order the promises settled
PromiseAllBySettlement(ps, order, prev) ==
    IF prev.state # "pending" THEN prev
    ELSE LET last == ps[order[Len(order)]]
         IN  IF last.state = "rejected" THEN Rejected(last.reason)
             ELSE IF \A j \in DOMAIN ps : ps[j].state = "fulfilled"
             THEN Fulfilled([j \in DOMAIN ps |-> ps[order[j]].value])
             ELSE Pending

\* Promise.all(ps): rejects with the reason of the first promise to reject,
\* fulfils, once every promise has, with the values in declaration order.
\* prev is the aggregate before this settlement, order the settlement order.
PromiseAll(ps, order, prev) ==
    IF prev.state # "pending" THEN prev
    ELSE LET last == ps[order[Len(order)]]
         IN  IF last.state = "rejected" THEN Rejected(last.reason)
             ELSE IF \A j \in DOMAIN ps : ps[j].state = "fulfilled"
             THEN Fulfilled([j \in DOMAIN ps |-> ps[j].value])
             ELSE Pending

(***************************************************************************)
(* The providers' replies of the model.                                    *)
(***************************************************************************)
TopHeight == 800000

GoodFees == [fastestFee |-> Num(12), halfHourFee |-> Num(9), hourFee |-> Num(7),
             economyFee |-> Num(4), minimumFee |-> Num(2)]

FeesReplies ==
    { Reply(200, GoodFees),
      Reply(200, [GoodFees EXCEPT !.fastestFee = Undefined]),
      Garbled(500) }

GoodStatsData == [difficulty |-> Num(88), hashrate_24h |-> Num(600),
                  mempool_transactions |-> Num(4500), mempool_size |-> Num(7000),
                  market_price_usd |-> Num(67000)]

StatsReplies ==
    { Reply(200, [data |-> GoodStatsData]),
      Reply(200, [data |-> [GoodStatsData EXCEPT !.difficulty = Undefined]]),
      Reply(200, [data |-> Undefined]),
      Unreachable }

NoExtras == [t |-> "undefined"]

Block(h) ==
    [height |-> Num(h), id |-> [hash |-> h],
     timestamp |-> StartClock - 600 * (TopHeight - h) - (7 * (h % 3)),
     tx_count |-> Num(2000 + (h % 7)), size |-> Num(1400000 + (h % 11)),
     weight |-> Num(3990000 + (h % 5)),
     extras |-> IF h % 4 = 0 THEN NoExtras
                ELSE [pool |-> IF h % 4 = 1 THEN Undefined ELSE [name |-> "Foundry"],
                      reward |-> IF h % 4 = 2 THEN Num(0) ELSE Num(312500000 + (h % 9)),
                      totalFees |-> Num(h % 2)]]

Blocks(n) == [i \in 1..n |-> Block(TopHeight + 1 - i)]

BlocksReplies ==
    { Reply(200, Blocks(UpstreamBlocks)),
      Reply(200, [Blocks(UpstreamBlocks) EXCEPT ![2].tx_count = Undefined]),
      Reply(200, Blocks(1)),
      Reply(200, <<>>),
      Garbled(200) }

MempoolReplies ==
    { Reply(200, [count |-> Num(4500), vsize |-> Num(7654321), total_fee |-> Num(99000)]),
      Reply(503, [count |-> Undefined, vsize |-> Undefined, total_fee |-> Undefined]) }

Stats(fc, fs, sc, ss, n) ==
    [funded_txo_count |-> fc, funded_txo_sum |-> fs, spent_txo_count |-> sc,
     spent_txo_sum |-> ss, tx_count |-> n]

NoStats == Stats(0, Sats(0, 0), 0, Sats(0, 0), 0)

AddressBodies ==
    { [chain_stats |-> Stats(3, Sats(5, 0), 1, Sats(2, 0), 5), mempool_stats |-> NoStats],
      [chain_stats |-> Stats(9, Sats(WhaleBtc + 2, 40), 4, Sats(2, 40), ActiveTxCount),
       mempool_stats |-> Stats(1, Sats(0, 1), 0, Sats(0, 0), 1)],
      [chain_stats |-> Stats(9, Sats(WhaleBtc + 2, 40), 4, Sats(2, 39), ActiveTxCount + 1),
       mempool_stats |-> Stats(0, Sats(0, 0), 1, Sats(0, 50), 1)],
      [chain_stats |-> Stats(2, Sats(1, 99999999), 3, Sats(2, 5), 40),
       mempool_stats |-> Stats(0, Sats(0, 0), 1, Sats(0, 7), 2)] }

AddressReplies ==
    {Reply(200, b) : b \in AddressBodies} \cup {Garbled(404), Unreachable}

Addresses == {"bc1qmine"}

Out(addr, v) == [scriptpubkey_address |-> Str(addr), value |-> Num(v)]
In(addr, v) == [prevout |-> Out(addr, v)]
Coinbase == [prevout |-> Undefined]

Tx(id, conf, h, t, vin, vout) ==
    [txid |-> id, status |-> [confirmed |-> conf, block_height |-> h, block_time |-> t],
     vin |-> vin, vout |-> vout]

EdgeTx == Tx("edge", TRUE, Num(799000), Num(StartClock - RecencyWindow + 1),
             <<In("bc1qother", 900)>>, <<Out("bc1qmine", 500), Out("bc1qmine", 300)>>)
OldTx == Tx("old", TRUE, Num(700000), Num(StartClock - RecencyWindow - 600),
            <<In("bc1qmine", 900), Coinbase>>, <<Out("bc1qother", 800)>>)
FreshTx == Tx("fresh", TRUE, Num(799990), Num(StartClock - 3600),
              <<In("bc1qmine", 50)>>, <<Out("bc1qmine", 20), Out("bc1qother", 10)>>)
UnconfirmedTx == Tx("unconf", FALSE, Undefined, Undefined,
                    <<Coinbase>>, <<Out("bc1qmine", 625)>>)

TxsReplies ==
    { Reply(200, <<>>), Reply(200, <<EdgeTx>>), Reply(200, <<UnconfirmedTx, OldTx>>),
      Reply(200, <<OldTx, FreshTx>>),
      Reply(200, [i \in 1..(RecentTxLimit + 1) |-> IF i = RecentTxLimit + 1 THEN FreshTx ELSE OldTx]),
      Garbled(500), Garbled(200), Unreachable }

TickerReplies == {Reply(200, [USD |-> [last |-> 7]]), Garbled(429)}

TxBody(w, fee, conf, vin, vout) ==
    [txid |-> "f4184fc5", size |-> Num(w \div 3), weight |-> w, fee |-> fee,
     status |-> IF conf THEN [confirmed |-> TRUE, block_height |-> Num(170),
                              block_time |-> Num(1231731025)]
                ELSE [confirmed |-> FALSE, block_height |-> Undefined,
                      block_time |-> Undefined],
     vin |-> vin, vout |-> vout]

ManyIns == [i \in 1..(AddressSample + 1) |->
              IF i = 2 THEN Coinbase ELSE In(IF i % 2 = 0 THEN "bc1qeven" ELSE "bc1qodd", 1000 * i)]

TransactionReplies ==
    { Reply(200, TxBody(561, 1234, TRUE, <<In("bc1qmine", 5000)>>, <<Out("bc1qother", 3766)>>)),
      Reply(200, TxBody(562, 141, FALSE, ManyIns, <<Out("bc1qother", 10), Out("bc1qmine", 20)>>)),
      Reply(200, TxBody(4, 1, TRUE, <<Coinbase>>, <<Out("bc1qmine", 625)>>)),
      Reply(200, TxBody(1, 0, TRUE, <<Coinbase>>, <<>>)),
      Reply(200, TxBody(0, 100, TRUE, <<>>, <<>>)),
      Reply(200, TxBody(0, 0, FALSE, <<>>, <<>>)),
      Garbled(404) }

Txids == {"f4184fc5"}

Limits == {-20, -1, 0, 1, 2, DefaultLimit, MaxLimit, MaxLimit + 1, 100}

(***************************************************************************)
(* The handlers' code after the await: the values the upstream calls       *)
(* resolved to, and the clock, to what the invocation returns.             *)
(***************************************************************************)
\* satsToBtc applied to a JS value
satsToBtcJs(x) == IF IsNum(x) THEN satsToBtc(SatsOf(x.v)) ELSE NaN

\* lines 40-73 of the overview route
OverviewBody(fees, stats, blocks, now) ==
    IF blocks = <<>> THEN Failed(TypeError("height"))
    ELSE IF stats.data = Undefined THEN Failed(TypeError("difficulty"))
    ELSE LET latestBlock == blocks[1]
             networkStats == stats.data
         IN  Succeeded(
               [network |-> [blockHeight |-> latestBlock.height,
                             difficulty |-> networkStats.difficulty,
                             hashrate |-> networkStats.hashrate_24h,
                             mempoolTxs |-> networkStats.mempool_transactions,
                             mempoolSize |-> networkStats.mempool_size],
                fees |-> [fastest |-> fees.fastestFee, halfHour |-> fees.halfHourFee,
                          hour |-> fees.hourFee, economy |-> fees.economyFee,
                          minimum |-> fees.minimumFee, unit |-> "sat/vB"],
                price |-> [usd |-> networkStats.market_price_usd],
                latestBlock |-> [height |-> latestBlock.height,
                                 timestamp |-> ToISOString(latestBlock.timestamp),
                                 txCount |-> latestBlock.tx_count,
                                 size |-> latestBlock.size],
                fetchedAt |-> ToISOString(now),
                dataSources |-> <<"mempool.space", "blockchair.com">>])

\* lines 90-112 of the address handler
AddressBody(address, data, now) ==
    LET chainBalance == SatsSub(data.chain_stats.funded_txo_sum,
                                data.chain_stats.spent_txo_sum)
        mempoolBalance == SatsSub(data.mempool_stats.funded_txo_sum,
                                  data.mempool_stats.spent_txo_sum)
        totalBalance == SatsAdd(chainBalance, mempoolBalance)
    IN  Succeeded(
          [address |-> address,
           balance |-> [confirmed |-> satsToBtc(chainBalance),
                        unconfirmed |-> satsToBtc(mempoolBalance),
                        total |-> satsToBtc(totalBalance),
                        sats |-> totalBalance],
           transactions |-> [confirmed |-> data.chain_stats.tx_count,
                             unconfirmed |-> data.mempool_stats.tx_count,
                             total |-> data.chain_stats.tx_count
                                       + data.mempool_stats.tx_count],
           received |-> satsToBtc(data.chain_stats.funded_txo_sum),
           spent |-> satsToBtc(data.chain_stats.spent_txo_sum),
           fetchedAt |-> ToISOString(now)])

\* v.prevout?.value || 0
PrevoutValue(v) == IF v.prevout = Undefined THEN Num(0) ELSE OrElse(v.prevout.value, Num(0))

\* v.prevout?.scriptpubkey_address
PrevoutAddress(v) ==
    IF v.prevout = Undefined THEN Undefined ELSE v.prevout.scriptpubkey_address

OutValue(v) == v.value
OutAddress(v) == v.scriptpubkey_address
Defined(x) == x # Undefined

\* Math.ceil(weight / 4)
Vsize(weight) == (weight + WeightPerVbyte - 1) \div WeightPerVbyte

\* (fee / vsize).toFixed(2)
SatPerVb(fee, vsize) ==
    IF vsize = 0 THEN (IF fee = 0 THEN NaN ELSE Infinity)
    ELSE ToFixed(fee, vsize, 2)

\* lines 127-158 of the transaction handler
TransactionBody(tx, now) ==
    LET totalInput == SumJs([i \in DOMAIN tx.vin |-> PrevoutValue(tx.vin[i])], Num(0))
        totalOutput == SumJs([i \in DOMAIN tx.vout |-> OutValue(tx.vout[i])], Num(0))
        ins == Slice(tx.vin, AddressSample)
        outs == Slice(tx.vout, AddressSample)
    IN  Succeeded(
          [txid |-> tx.txid,
           confirmed |-> tx.status.confirmed,
           blockHeight |-> OrElse(tx.status.block_height, Null),
           blockTime |-> IF Truthy(tx.status.block_time)
                         THEN ToISOString(tx.status.block_time.v) ELSE Null,
           size |-> tx.size,
           weight |-> tx.weight,
           vsize |-> Vsize(tx.weight),
           fee |-> [sats |-> tx.fee, btc |-> satsToBtc(SatsOf(tx.fee)),
                    satPerVb |-> SatPerVb(tx.fee, Vsize(tx.weight))],
           inputs |-> [count |-> Len(tx.vin), totalBtc |-> satsToBtcJs(totalInput)],
           outputs |-> [count |-> Len(tx.vout), totalBtc |-> satsToBtcJs(totalOutput)],
           addresses |->
             [inputs |-> SelectSeq([i \in DOMAIN ins |-> PrevoutAddress(ins[i])], Defined),
              outputs |-> SelectSeq([i \in DOMAIN outs |-> OutAddress(outs[i])], Defined)],
           fetchedAt |-> ToISOString(now)])

\* (x / d).toFixed(k) for a JS value x
ToFixedJs(x, d, k) == IF IsNum(x) THEN ToFixed(x.v, d, k) ELSE NaN

\* lines 175-208 of the fees handler
FeesBody(fees, mempool, blocks, now) ==
    LET n == Len(blocks)
        avgBlockTime ==
            IF n > 1
            THEN ToFixed(blocks[1].timestamp - blocks[n].timestamp, (n - 1) * 60, 1)
            ELSE ToFixed(10, 1, 1)
        Recent(b) == [height |-> b.height, txCount |-> b.tx_count,
                      size |-> b.size, weight |-> b.weight]
    IN  Succeeded(
          [recommended |->
             [fastest |-> [satsPerVb |-> fees.fastestFee, estimatedMinutes |-> Num(10)],
              halfHour |-> [satsPerVb |-> fees.halfHourFee, estimatedMinutes |-> Num(30)],
              hour |-> [satsPerVb |-> fees.hourFee, estimatedMinutes |-> Num(60)],
              economy |-> [satsPerVb |-> fees.economyFee, estimatedMinutes |-> Num(120)],
              minimum |-> [satsPerVb |-> fees.minimumFee,
                           estimatedMinutes |-> Str("variable")]],
           mempool |-> [count |-> mempool.count, vsize |-> mempool.vsize,
                        totalFee |-> mempool.total_fee,
                        sizeMb |-> ToFixedJs(mempool.vsize, 1000000, 2)],
           costEstimates |->
             [note |-> "Estimates for typical P2PKH transaction (225 vbytes)",
              fastest |-> [sats |-> JsTimes(fees.fastestFee, RefTxVbytes)],
              economy |-> [sats |-> JsTimes(fees.economyFee, RefTxVbytes)]],
           recentBlocks |-> [i \in DOMAIN blocks |-> Recent(blocks[i])],
           avgBlockTime |-> avgBlockTime,
           fetchedAt |-> ToISOString(now)])

\* Math.min(limit, 15)
ClampLimit(limit) == IF limit < MaxLimit THEN limit ELSE MaxLimit

\* Math.round(x / n) for a JS value x and an integer n > 0
RoundDiv(x, n) ==
    IF IsNum(x) THEN Num((2 * x.v + n) \div (2 * n)) ELSE NaN

\* b.extras?.pool?.name || 'Unknown'
Miner(b) ==
    IF b.extras = NoExtras \/ b.extras.pool = Undefined THEN Str("Unknown")
    ELSE Str(b.extras.pool.name)

\* b.extras?.<field> ? satsToBtc(b.extras.<field>) : null
ExtraBtc(b, x) == IF b.extras # NoExtras /\ Truthy(x) THEN satsToBtcJs(x) ELSE Null

\* lines 221-250 of the blocks handler
BlocksBody(limitIn, blocks, now) ==
    LET limit == ClampLimit(limitIn)
        recentBlocks == Slice(blocks, limit)
        n == Len(recentBlocks)
        totalTxs == SumJs([i \in DOMAIN recentBlocks |-> recentBlocks[i].tx_count], Num(0))
        totalSize == SumJs([i \in DOMAIN recentBlocks |-> recentBlocks[i].size], Num(0))
        Shape(b) ==
            [height |-> b.height, hash |-> b.id,
             timestamp |-> ToISOString(b.timestamp),
             txCount |-> b.tx_count, size |-> b.size, weight |-> b.weight,
             miner |-> Miner(b),
             reward |-> ExtraBtc(b, IF b.extras = NoExtras THEN Undefined
                                    ELSE b.extras.reward),
             fees |-> ExtraBtc(b, IF b.extras = NoExtras THEN Undefined
                                  ELSE b.extras.totalFees)]
    IN  IF n = 0 THEN Failed(TypeError("height"))
        ELSE Succeeded(
               [blocks |-> [i \in DOMAIN recentBlocks |-> Shape(recentBlocks[i])],
                summary |-> [blocksReturned |-> n,
                             totalTransactions |-> totalTxs,
                             avgTxPerBlock |-> RoundDiv(totalTxs, n),
                             totalSizeMb |-> ToFixedJs(totalSize, 1000000, 2),
                             heightRange |-> [from |-> recentBlocks[n].height,
                                              to |-> recentBlocks[1].height]],
                fetchedAt |-> ToISOString(now)])

\* the callback of txs.some() on tx, Date.now() reading t
IsRecent(tx, t) ==
    /\ Truthy(tx.status.block_time)
    /\ t - tx.status.block_time.v < RecencyWindow

\* lines 273-292: one entry of recentTransactions
RecentTx(address, tx) ==
    LET ToMe(v) == v.scriptpubkey_address = Str(address)
        FromMe(v) == PrevoutAddress(v) = Str(address)
        isIncoming == \E i \in DOMAIN tx.vout : ToMe(tx.vout[i])
        isOutgoing == \E i \in DOMAIN tx.vin : FromMe(tx.vin[i])
        mine == SelectSeq(tx.vout, ToMe)
        amount == IF isIncoming
                  THEN SumJs([i \in DOMAIN mine |-> OutValue(mine[i])], Num(0))
                  ELSE Num(0)
    IN  [txid |-> tx.txid,
         confirmed |-> tx.status.confirmed,
         blockHeight |-> tx.status.block_height,
         timestamp |-> IF Truthy(tx.status.block_time)
                       THEN ToISOString(tx.status.block_time.v) ELSE Null,
         type |-> IF isOutgoing THEN "outgoing" ELSE "incoming",
         amount |-> satsToBtcJs(amount)]

\* recentTransactions keeping only what the recency window holds
RecentTxsInWindow(address, txs) ==
    LET InWindow(tx) == IsRecent(tx, clock)
        first == Slice(SelectSeq(txs, InWindow), RecentTxLimit)
    IN  [i \in DOMAIN first |-> RecentTx(address, first[i])]

\* lines 273-292: txs.slice(0, 10).map(...)
RecentTxs(address, txs) ==
    LET first == Slice(txs, RecentTxLimit)
    IN  [i \in DOMAIN first |-> RecentTx(address, first[i])]

\* lines 269-321 of the address-report handler.  reads[i] is what Date.now()
\* returns when txs.some() examines txs[i]; now is what new Date() returns for
\* fetchedAt.
AddressReportBody(address, addressData, txs, ticker, reads, now) ==
    LET chainBalance == SatsSub(addressData.chain_stats.funded_txo_sum,
                                addressData.chain_stats.spent_txo_sum)
        btcPrice == ticker.USD.last
    IN  Succeeded(
          [address |-> address,
           balance |-> [btc |-> satsToBtc(chainBalance), sats |-> chainBalance,
                        usd |-> UsdValue(chainBalance, btcPrice)],
           activity |->
             [totalTransactions |-> addressData.chain_stats.tx_count,
              totalReceived |-> satsToBtc(addressData.chain_stats.funded_txo_sum),
              totalSpent |-> satsToBtc(addressData.chain_stats.spent_txo_sum),
              utxoCount |-> addressData.chain_stats.funded_txo_count
                            - addressData.chain_stats.spent_txo_count],
           classification |->
             [isActive |-> addressData.chain_stats.tx_count > ActiveTxCount,
              isWhale |-> SatsGt(chainBalance, Sats(WhaleBtc, 0)),
              hasRecentActivity |-> \E i \in DOMAIN txs : IsRecent(txs[i], reads[i])],
           recentTransactions |-> RecentTxs(address, txs),
           pricing |-> [btcUsd |-> btcPrice],
           fetchedAt |-> ToISOString(now)])

(***************************************************************************)
(* The state machine: an invocation starts its upstream calls, the calls   *)
(* settle in any order, the handler resumes once what it awaits is         *)
(* settled.  The same query is then run again on the same replies.         *)
(***************************************************************************)
\* the URLs a query fetches, in the order its code declares them
Urls(q) ==
    CASE q = "overview" -> <<"fees", "stats", "blocks">>
      [] q = "fees" -> <<"fees", "mempool", "blocks">>
      [] q = "address" -> <<"address">>
      [] q = "transaction" -> <<"tx">>
      [] q = "blocks" -> <<"blocks">>
      [] q = "address-report" -> <<"address", "txs", "ticker">>
      [] OTHER -> <<>>

\* the handlers that await Promise.all of their calls
FanOut == {"overview", "fees", "address-report"}

UrlSet(q) == {Urls(q)[i] : i \in DOMAIN Urls(q)}

\* the mocked providers: one reply per URL of one query
Worlds ==
    {[fees |-> f, stats |-> s, blocks |-> b] :
        f \in FeesReplies, s \in StatsReplies, b \in BlocksReplies}
    \cup {[fees |-> f, mempool |-> m, blocks |-> b] :
        f \in FeesReplies, m \in MempoolReplies, b \in BlocksReplies}
    \cup {[address |-> a] : a \in AddressReplies}
    \cup {[tx |-> t] : t \in TransactionReplies}
    \cup {[blocks |-> b] : b \in BlocksReplies}
    \cup {[address |-> a, txs |-> t, ticker |-> k] :
        a \in AddressReplies, t \in TxsReplies, k \in TickerReplies}

NoInput == [none |-> TRUE]
NoOutcome == [status |-> "none"]

Init ==
    /\ upstream \in Worlds
    /\ pc = "idle"
    /\ query = "none"
    /\ input = NoInput
    /\ promises = <<>>
    /\ awaited = Pending
    /\ settled = <<>>
    /\ outcome = NoOutcome
    /\ completed = <<>>
    /\ clock = StartClock

\* the slots without the .catch of the transaction history
ChainedNoCatch(q, i, p) ==
    IF q = "fees" /\ i = 3 THEN ThenSlice(p, FeeSample) ELSE p

\* the promise of slot i of query q, from the promise of its fetchJSON call
Chained(q, i, p) ==
    IF q = "address-report" /\ i = 2 THEN Catch(p, <<>>)
    ELSE IF q = "fees" /\ i = 3 THEN ThenSlice(p, FeeSample)
    ELSE p

\* The handler of q is called with input in and starts its upstream calls.
\* A query runs against providers mocked for its own URLs, and a later run
\* repeats the first one's query and input.
Invoke(q, in) ==
    /\ pc \in {"idle", "done"}
    /\ Len(completed) < MaxRuns
    /\ query \in {"none", q}
    /\ query = q => input = in
    /\ DOMAIN upstream = UrlSet(q)
    /\ pc' = "awaiting"
    /\ query' = q
    /\ input' = in
    /\ promises' = [i \in DOMAIN Urls(q) |-> Pending]
    /\ awaited' = Pending
    /\ settled' = <<>>
    /\ outcome' = NoOutcome
    /\ UNCHANGED <<upstream, completed, clock>>

InvokeOverview == Invoke("overview", NoInput)
InvokeAddress == \E a \in Addresses : Invoke("address", [address |-> a])
InvokeTransaction == \E t \in Txids : Invoke("transaction", [txid |-> t])
InvokeFees == Invoke("fees", NoInput)
InvokeBlocks == \E l \in Limits : Invoke("blocks", [limit |-> l])
InvokeAddressReport == \E a \in Addresses : Invoke("address-report", [address |-> a])

\* The upstream call of slot i settles.
Settle(i) ==
    /\ pc \in {"awaiting", "done"}
    /\ i \in DOMAIN promises
    /\ promises[i] = Pending
    /\ LET url == Urls(query)[i]
           p == Chained(query, i, fetchJSON(url, upstream[url]))
           ps == [promises EXCEPT ![i] = p]
           order == Append(settled, i)
       IN  /\ promises' = ps
           /\ settled' = order
           /\ awaited' = IF query \in FanOut THEN PromiseAll(ps, order, awaited)
                         ELSE p
    /\ UNCHANGED <<upstream, pc, query, input, outcome, completed, clock>>

\* The handler of q resumes after its await and returns result.
Resume(q, result) ==
    /\ pc = "awaiting"
    /\ query = q
    /\ awaited.state # "pending"
    /\ outcome' = result
    /\ completed' = Append(completed, result)
    /\ pc' = "done"
    /\ UNCHANGED <<upstream, query, input, promises, awaited, settled>>

ResumeOverview ==
    /\ Resume("overview",
              IF awaited.state = "rejected" THEN Failed(awaited.reason)
              ELSE OverviewBody(awaited.value[1].body, awaited.value[2].body,
                                awaited.value[3].body, clock))
    /\ UNCHANGED clock

ResumeAddress ==
    /\ Resume("address",
              IF awaited.state = "rejected" THEN Failed(awaited.reason)
              ELSE AddressBody(input.address, awaited.value.body, clock))
    /\ UNCHANGED clock

ResumeTransaction ==
    /\ Resume("transaction",
              IF awaited.state = "rejected" THEN Failed(awaited.reason)
              ELSE TransactionBody(awaited.value.body, clock))
    /\ UNCHANGED clock

ResumeFees ==
    /\ Resume("fees",
              IF awaited.state = "rejected" THEN Failed(awaited.reason)
              ELSE FeesBody(awaited.value[1].body, awaited.value[2].body,
                            awaited.value[3].body, clock))
    /\ UNCHANGED clock

ResumeBlocks ==
    /\ Resume("blocks",
              IF awaited.state = "rejected" THEN Failed(awaited.reason)
              ELSE BlocksBody(input.limit, awaited.value.body, clock))
    /\ UNCHANGED clock

\* the clock readings of one address-report run: one per transaction that
\* txs.some() may examine and the one of fetchedAt, in program order
\* (non-decreasing: the reading at position i is the clock plus the number
\* of seconds that have ticked by position i, second d ticking at k[d])
ClockReads(n) ==
    {[i \in 1..(n + 1) |-> clock + Cardinality({d \in 1..MaxDrift : k[d] <= i})] :
        k \in [1..MaxDrift -> 1..(n + 2)]}

ResumeAddressReport ==
    /\ query = "address-report"
    /\ awaited.state # "pending"
    /\ IF awaited.state = "rejected"
       THEN Resume("address-report", Failed(awaited.reason)) /\ UNCHANGED clock
       ELSE \E r \in ClockReads(Len(awaited.value[2].body)) :
               LET n == Len(awaited.value[2].body)
               IN  /\ Resume("address-report",
                             AddressReportBody(input.address, awaited.value[1].body,
                                               awaited.value[2].body,
                                               awaited.value[3].body, r, r[n + 1]))
                   /\ clock' = r[n + 1]

\* Time passes.
Tick ==
    /\ clock < StartClock + MaxTicks
    /\ clock' = clock + 1
    /\ UNCHANGED <<upstream, pc, query, input, promises, awaited, settled,
                   outcome, completed>>

Next ==
    \/ InvokeOverview
    \/ InvokeAddress
    \/ InvokeTransaction
    \/ InvokeFees
    \/ InvokeBlocks
    \/ InvokeAddressReport
    \/ \E i \in 1..3 : Settle(i)
    \/ ResumeOverview
    \/ ResumeAddress
    \/ ResumeTransaction
    \/ ResumeFees
    \/ ResumeBlocks
    \/ ResumeAddressReport
    \/ Tick

Spec == Init /\ [][Next]_vars

TypeOK ==
    /\ pc \in {"idle", "awaiting", "done"}
    /\ Len(completed) <= MaxRuns
    /\ clock \in StartClock..(StartClock + MaxTicks + MaxRuns * MaxDrift)

(***************************************************************************)
(* Properties.  They read the providers' replies directly, not through     *)
(* the operators of the handlers.                                          *)
(***************************************************************************)
\* the upstream call that gets this reply fails: transport error,
\* non-success status or unparsable body
CallFails(reply) ==
    \/ reply.transport # "ok"
    \/ reply.status < 200
    \/ reply.status > 299
    \/ reply.json = <<>>

\* the message of the failure of a call that gets this reply
FailureMessage(reply) ==
    IF reply.transport # "ok" THEN [text |-> "fetch failed"]
    ELSE IF reply.status < 200 \/ reply.status > 299
    THEN [text |-> "API error: ", status |-> reply.status]
    ELSE [text |-> "Unexpected token in JSON"]

\* the invocation of query q has returned
Finished(q) == pc = "done" /\ query = q

\* the slots of the running query whose upstream call fails
FailedSlots == {i \in DOMAIN Urls(query) : CallFails(upstream[Urls(query)[i]])}

\* the slot whose call was the first to fail in this invocation
FirstFailure ==
    settled[CHOOSE j \in DOMAIN settled :
              /\ settled[j] \in FailedSlots
              /\ \A k \in 1..(j - 1) : settled[k] \notin FailedSlots]

\* the satoshi amount a decimal string of satsToBtc stands for
BtcToSats(b) ==
    IF b.neg THEN SatsNeg(Sats(b.whole, b.frac)) ELSE Sats(b.whole, b.frac)

\* C1: in address-report, a failure of the address call fails the query
\* with no output whatever the other calls do; a failure of the
\* transaction-history call alone leaves the query succeeding with
\* recentTransactions empty, hasRecentActivity false and the other fields
\* computed from the address and ticker replies.
C1_PartialFailureIsolation ==
    Finished("address-report") =>
        LET a == upstream.address
            t == upstream.txs
            k == upstream.ticker
        IN  /\ CallFails(a) =>
                 outcome.status = "failed" /\ "output" \notin DOMAIN outcome
            /\ (CallFails(t) /\ ~CallFails(a) /\ ~CallFails(k)) =>
                 /\ outcome.status = "succeeded"
                 /\ outcome.output.recentTransactions = <<>>
                 /\ outcome.output.classification.hasRecentActivity = FALSE
                 /\ LET cs == a.json[1].chain_stats
                        out == outcome.output
                    IN  /\ out.address = input.address
                        /\ SatsAdd(out.balance.sats, cs.spent_txo_sum)
                             = cs.funded_txo_sum
                        /\ BtcToSats(out.balance.btc) = out.balance.sats
                        /\ out.activity.totalTransactions = cs.tx_count
                        /\ out.activity.utxoCount
                             = cs.funded_txo_count - cs.spent_txo_count
                        /\ out.classification.isActive = (cs.tx_count > 10)
                        /\ out.pricing.btcUsd = k.json[1].USD.last

\* C1 witness: the transaction-history call alone failed, the address call
\* settled last, and the report succeeded with an empty history
C1_Witness ==
    /\ Finished("address-report")
    /\ CallFails(upstream.txs)
    /\ ~CallFails(upstream.address)
    /\ ~CallFails(upstream.ticker)
    /\ Len(settled) = 3
    /\ settled[1] = 2
    /\ outcome.status = "succeeded"
    /\ outcome.output.recentTransactions = <<>>

AllOrNothing == {"overview", "fees", "address", "transaction", "blocks"}

\* C2: an all-or-nothing query one of whose upstream calls fails returns a
\* failure carrying the message of the first call that failed, and no
\* output; it returns an output only when every call succeeded.
C2_AllOrNothing ==
    (pc = "done" /\ query \in AllOrNothing) =>
        /\ FailedSlots # {} =>
             /\ outcome.status = "failed"
             /\ "output" \notin DOMAIN outcome
             /\ outcome.error = FailureMessage(upstream[Urls(query)[FirstFailure]])
        /\ outcome.status = "succeeded" => FailedSlots = {}

\* C2 witness: a fan-out in which one call succeeded before another failed
C2_Witness ==
    /\ pc = "done"
    /\ query \in {"overview", "fees"}
    /\ FailedSlots # {}
    /\ Len(settled) >= 2
    /\ settled[1] \notin FailedSlots
    /\ outcome.status = "failed"

\* the value a fan-out's slot is bound to when its call gets this reply
SlotValue(q, i, reply) ==
    IF q = "address-report" /\ i = 2 /\ CallFails(reply) THEN From("catch", <<>>)
    ELSE IF q = "fees" /\ i = 3 /\ Len(reply.json[1]) > 6
    THEN From("blocks", SubSeq(reply.json[1], 1, 6))
    ELSE From(Urls(q)[i], reply.json[1])

\* C7: whatever the order of settlement, the values a fan-out resolves to
\* are those of the URLs in declaration order, and the output's fee,
\* statistics, mempool, address and ticker fields come from those sources.
C7_DeclarationOrder ==
    /\ (query \in FanOut /\ pc = "awaiting" /\ awaited.state = "fulfilled") =>
          \A i \in DOMAIN Urls(query) :
              /\ awaited.value[i].from \in {Urls(query)[i], "catch"}
              /\ awaited.value[i] = SlotValue(query, i, upstream[Urls(query)[i]])
    /\ (Finished("overview") /\ outcome.status = "succeeded") =>
          /\ outcome.output.fees.economy = upstream.fees.json[1].economyFee
          /\ outcome.output.network.difficulty
               = upstream.stats.json[1].data.difficulty
          /\ outcome.output.latestBlock.height = upstream.blocks.json[1][1].height
    /\ (Finished("fees") /\ outcome.status = "succeeded") =>
          /\ outcome.output.recommended.economy.satsPerVb
               = upstream.fees.json[1].economyFee
          /\ outcome.output.mempool.count = upstream.mempool.json[1].count
          /\ Len(outcome.output.recentBlocks) <= 6
    /\ (Finished("address-report") /\ outcome.status = "succeeded") =>
          /\ outcome.output.activity.totalTransactions
               = upstream.address.json[1].chain_stats.tx_count
          /\ outcome.output.pricing.btcUsd = upstream.ticker.json[1].USD.last

\* C7 witness: a fan-out whose calls settled in the reverse of their
\* declaration order and that returned an output
C7_Witness ==
    /\ pc = "done"
    /\ query \in FanOut
    /\ settled = <<3, 2, 1>>
    /\ outcome.status = "succeeded"

\* C3: with at least 15 blocks upstream, the blocks query succeeds and
\* returns min(max(limit, 1), 15) blocks, summary.blocksReturned the same.
C3_LimitClamped ==
    (/\ Finished("blocks")
     /\ ~CallFails(upstream.blocks)
     /\ Len(upstream.blocks.json[1]) >= 15) =>
        LET want == IF input.limit < 1 THEN 1
                    ELSE IF input.limit > 15 THEN 15 ELSE input.limit
        IN  /\ outcome.status = "succeeded"
            /\ Len(outcome.output.blocks) = want
            /\ outcome.output.summary.blocksReturned = want

\* C4: in a successful address-report, isActive is true exactly when the
\* confirmed transaction count exceeds 10 and isWhale exactly when
\* funded_txo_sum - spent_txo_sum exceeds 100,000,000,000 sats, whatever
\* the transaction-history and ticker replies.
C4_ClassificationThresholds ==
    (Finished("address-report") /\ outcome.status = "succeeded") =>
        LET cs == upstream.address.json[1].chain_stats
            limit == SatsAdd(cs.spent_txo_sum, Sats(1000, 0))
            flags == outcome.output.classification
        IN  /\ flags.isActive = (cs.tx_count > 10)
            /\ flags.isWhale =
                 (\/ cs.funded_txo_sum.btc > limit.btc
                  \/ /\ cs.funded_txo_sum.btc = limit.btc
                     /\ cs.funded_txo_sum.sat > limit.sat)

\* C4 witness: a report on an address holding exactly 100,000,000,000 sats
\* over exactly 10 confirmed transactions
C4_Witness ==
    /\ Finished("address-report")
    /\ outcome.status = "succeeded"
    /\ outcome.output.balance.sats = Sats(1000, 0)
    /\ outcome.output.activity.totalTransactions = 10
    /\ ~outcome.output.classification.isWhale
    /\ ~outcome.output.classification.isActive

\* C5: no query succeeds with an output in which a field copied from an
\* upstream reply is undefined.
C5_NoMissingField ==
    (pc = "done" /\ outcome.status = "succeeded") =>
        LET out == outcome.output
        IN  /\ query = "overview" =>
                 /\ out.fees.fastest # Undefined
                 /\ out.network.difficulty # Undefined
                 /\ out.latestBlock.txCount # Undefined
            /\ query = "fees" =>
                 /\ out.recommended.fastest.satsPerVb # Undefined
                 /\ out.mempool.count # Undefined
                 /\ \A i \in DOMAIN out.recentBlocks :
                        out.recentBlocks[i].txCount # Undefined
            /\ query = "blocks" =>
                 \A i \in DOMAIN out.blocks : out.blocks[i].txCount # Undefined

\* C6 as stated: two invocations of a query on the same input and replies
\* return outputs equal in every field but fetchedAt.
C6_Idempotent ==
    \A i, j \in DOMAIN completed :
        (completed[i].status = "succeeded" /\ completed[j].status = "succeeded") =>
            [completed[i].output EXCEPT !.fetchedAt = ToISOString(0)]
              = [completed[j].output EXCEPT !.fetchedAt = ToISOString(0)]

\* an output without its capture time and what is relative to it
Timeless(out) ==
    IF query = "address-report"
    THEN [out EXCEPT !.fetchedAt = ToISOString(0),
                     !.classification.hasRecentActivity = FALSE]
    ELSE [out EXCEPT !.fetchedAt = ToISOString(0)]

\* C6 amended: two invocations of a query on the same input and replies
\* both succeed or both fail, and their outputs are equal in every field
\* but fetchedAt and, in address-report, classification.hasRecentActivity.
C6_IdempotentButRecency ==
    \A i, j \in DOMAIN completed :
        /\ completed[i].status = completed[j].status
        /\ completed[i].status = "succeeded" =>
             Timeless(completed[i].output) = Timeless(completed[j].output)

\* C6 witness: two address-report runs at different capture times whose
\* hasRecentActivity differ
C6_Witness ==
    /\ query = "address-report"
    /\ Len(completed) >= 2
    /\ completed[1].status = "succeeded"
    /\ completed[2].status = "succeeded"
    /\ completed[1].output.fetchedAt # completed[2].output.fetchedAt
    /\ completed[1].output.classification.hasRecentActivity
         # completed[2].output.classification.hasRecentActivity
    /\ completed[1].output.recentTransactions # <<>>

\* C8: in a successful address query, confirmed is chain funded - spent,
\* unconfirmed is mempool funded - spent, balance.sats is their sum, none
\* clamped, and transactions.total is the sum of the two transaction counts.
C8_BalanceArithmetic ==
    (Finished("address") /\ outcome.status = "succeeded") =>
        LET chain == upstream.address.json[1].chain_stats
            mempool == upstream.address.json[1].mempool_stats
            out == outcome.output
            confirmed == BtcToSats(out.balance.confirmed)
            unconfirmed == BtcToSats(out.balance.unconfirmed)
        IN  /\ SatsAdd(confirmed, chain.spent_txo_sum) = chain.funded_txo_sum
            /\ SatsAdd(unconfirmed, mempool.spent_txo_sum) = mempool.funded_txo_sum
            /\ out.balance.sats = SatsAdd(confirmed, unconfirmed)
            /\ BtcToSats(out.balance.total) = out.balance.sats
            /\ out.transactions.total = chain.tx_count + mempool.tx_count

\* C8 witness: an address whose spent sum exceeds its funded sum, reported
\* with a negative confirmed and total balance
C8_Witness ==
    /\ Finished("address")
    /\ outcome.status = "succeeded"
    /\ outcome.output.balance.confirmed.neg
    /\ outcome.output.balance.sats.btc < 0
    /\ outcome.output.transactions.total = 42

\* C9: in a successful address-report, hasRecentActivity is true exactly
\* when some transaction has a block time less than 86,400 x 30 seconds
\* before the instant reported as fetchedAt.
C9_SingleCaptureTime ==
    (Finished("address-report") /\ outcome.status = "succeeded") =>
        LET txs == IF CallFails(upstream.txs) THEN <<>> ELSE upstream.txs.json[1]
            at == outcome.output.fetchedAt.iso
        IN  outcome.output.classification.hasRecentActivity =
              (\E i \in DOMAIN txs :
                  /\ txs[i].status.block_time # Undefined
                  /\ at - txs[i].status.block_time.v < 86400 * 30)

\* C10: in a successful transaction query, vsize is ceil(weight / 4) and
\* satPerVb is the finite number fee / vsize rounded to 2 decimals.
C10_VsizeAndFeeRate ==
    (Finished("transaction") /\ outcome.status = "succeeded") =>
        LET tx == upstream.tx.json[1]
            out == outcome.output
            miss == IF "digits" \in DOMAIN out.fee.satPerVb
                    THEN 100 * tx.fee - out.fee.satPerVb.digits * out.vsize
                    ELSE 0
        IN  /\ 4 * out.vsize >= tx.weight
            /\ 4 * (out.vsize - 1) < tx.weight
            /\ "digits" \in DOMAIN out.fee.satPerVb
            /\ 2 * miss <= out.vsize
            /\ 0 - 2 * miss <= out.vsize

====
